---- MODULE Spec2Model ----
(***************************************************************************)
(* Verification model of the Recruitment-Funnel-Agent pipeline.            *)
(*                                                                         *)
(* The Python program keeps each stage's data in a state dictionary that   *)
(* LangGraph hands from node to node.  Each stage is modelled by one       *)
(* record-valued variable holding that dictionary's fields together with   *)
(* the position (pc) of the run in the stage's graph.  A node function is  *)
(* one action; a loop inside a node is a RECURSIVE operator over the list  *)
(* the loop walks.  Every specification below leaves the variables of the  *)
(* other stages at their idle value.                                       *)
(***************************************************************************)
EXTENDS Integers, Sequences, FiniteSets, TLC

VARIABLES
    rm,      \* ResponseManagementState (models/response.py) + position in the graph
    agent,   \* one call of ResponseManagementAgent.process_candidate_response
    cand,    \* the status of one CandidateProfile and of one interview Candidate
    srcg,    \* SourcingState (models/sourcing.py) + position in the graph
    scr,     \* ScreeningState (models/screening.py) + position in the graph
    outr,    \* OutreachState (models/outreach.py) + position in the graph
    pipe,    \* one call of run_real_email_pipeline (main.py)
    mail     \* one EmailProcessor (utils/email_integration.py) and its callers

vars == <<rm, agent, cand, srcg, scr, outr, pipe, mail>>

\* A stage that is not part of the run under study.
Idle == [pc |-> "off"]

(***************************************************************************)
(* Bounds of the model.                                                    *)
(***************************************************************************)
MaxResponses == 2      \* processed responses handed to the router in one run
MaxSlots     == 2      \* interview slots in the pool at the start of a run
MaxEmails    == 3      \* sent emails handed to a response-management run
MaxRequests  == 3      \* schedule requests in a run that holds nothing else
MaxQueued    == 2      \* emails in the EmailProcessor's queue at the start
MaxCalls     == 2      \* direct calls of process_incoming_email

None == "None"

(***************************************************************************)
(* Generic helpers.                                                        *)
(***************************************************************************)
SeqsUpTo(S, n) == UNION { [1..k -> S] : k \in 0..n }

Range(s) == { s[i] : i \in 1..Len(s) }

(***************************************************************************)
(* models/response.py: the enumerations.                                   *)
(***************************************************************************)
FollowUpAction ==
    { "schedule_interview", "send_info", "answer_questions", "schedule_later",
      "add_to_future_pool", "escalate_to_human", "no_action", "remove_from_list" }

ResponseType ==
    { "interested", "not_interested", "questions", "request_info",
      "schedule_later", "out_of_office", "spam_complaint", "unknown" }

ResponseSentiment == { "positive", "neutral", "negative", "mixed" }

\* The two interview types the program ever produces (_recommend_interview_type,
\* generate_interview_slots); the enumeration has three more that no code path uses.
InterviewType == { "phone_screen", "video_interview" }

(***************************************************************************)
(* Interview slots.  slot_id is a fresh uuid per slot in the program; the  *)
(* model numbers the slots of a pool 1..n.                                 *)
(***************************************************************************)
InterviewSlot(id, type) == [slot_id |-> id, interview_type |-> type]

NoSlot == [slot_id |-> 0, interview_type |-> None]     \* Python's None

SlotPools ==
    { [i \in 1..Len(ts) |-> InterviewSlot(i, ts[i])] : ts \in SeqsUpTo(InterviewType, MaxSlots) }

\* Mutation of find_suitable_interview_slot: the type preference is gone.
FirstAvailableSlot(available_slots, preferred_type) ==
    IF available_slots # <<>> THEN available_slots[1] ELSE NoSlot

\* nodes/response.py find_suitable_interview_slot
find_suitable_interview_slot(available_slots, preferred_type) ==
    LET type_matched_slots ==
            SelectSeq(available_slots, LAMBDA slot : slot.interview_type = preferred_type)
    IN  IF type_matched_slots # <<>> THEN type_matched_slots[1]
        ELSE IF available_slots # <<>> THEN available_slots[1]
        ELSE NoSlot

\* list.remove(x): drops the first element equal to x.
KeepAll(s, x) == s

ListRemove(s, x) ==
    LET i == CHOOSE k \in 1..Len(s) : s[k] = x /\ \A j \in 1..(k-1) : s[j] # x
    IN  SubSeq(s, 1, i-1) \o SubSeq(s, i+1, Len(s))

(***************************************************************************)
(* The processed responses the router reads.  The router reads             *)
(* follow_up_action, and interview_type only in the schedule_interview     *)
(* branch, so responses with another action carry interview_type None.     *)
(* response_id is the position in processed_responses (a uuid in the code).*)
(***************************************************************************)
\* interview_scheduled is False by default and no code path sets it.
RouterResponse ==
    { [follow_up_action |-> a, interview_type |-> t, human_review_needed |-> h,
       interview_scheduled |-> FALSE] :
        a \in FollowUpAction, t \in InterviewType \cup {None}, h \in BOOLEAN }

RoutedResponses ==
    { r \in RouterResponse :
        r.follow_up_action # "schedule_interview" => r.interview_type = None }

\* The responses that ask for an interview, not flagged for review.
ScheduleRequests ==
    { r \in RoutedResponses :
        r.follow_up_action = "schedule_interview" /\ ~r.human_review_needed }

\* agents/response.py generate_follow_up_email: the "action" tag of the email it returns.
generate_follow_up_email(follow_up_action) ==
    CASE follow_up_action = "schedule_interview" -> "schedule_interview"
      [] follow_up_action = "answer_questions"   -> "answer_questions"
      [] follow_up_action = "send_info"          -> "send_info"
      [] follow_up_action = "add_to_future_pool" -> "future_opportunities"
      [] OTHER                                   -> "no_email"

\* The loop body of execute_follow_up_actions for the response at position i.
\* acc holds the function's locals: available_slots, scheduled_interviews,
\* follow_up_emails, pending_actions.
RouteResponse(i, response, acc, auto_respond_to_questions) ==
    IF response.follow_up_action = "schedule_interview" THEN
        IF acc.available_slots # <<>> /\ response.interview_type # None THEN
            LET suitable_slot ==
                    find_suitable_interview_slot(acc.available_slots, response.interview_type)
            IN  IF suitable_slot # NoSlot THEN
                    [acc EXCEPT
                        !.scheduled_interviews =
                            Append(@, [response_id    |-> i,
                                       slot_id        |-> suitable_slot.slot_id,
                                       interview_type |-> suitable_slot.interview_type]),
                        !.follow_up_emails =
                            Append(@, [response_id |-> i, action |-> "confirm_interview"]),
                        !.available_slots = ListRemove(@, suitable_slot)]
                ELSE
                    [acc EXCEPT !.pending_actions =
                        Append(@, [response_id |-> i, action |-> "find_interview_slot"])]
        ELSE acc
    ELSE IF response.follow_up_action \in {"answer_questions", "send_info"} THEN
        IF auto_respond_to_questions THEN
            [acc EXCEPT !.follow_up_emails =
                Append(@, [response_id |-> i,
                           action |-> generate_follow_up_email(response.follow_up_action)])]
        ELSE
            [acc EXCEPT !.pending_actions =
                Append(@, [response_id |-> i, action |-> "manual_response"])]
    ELSE IF response.follow_up_action = "add_to_future_pool" THEN
        [acc EXCEPT !.follow_up_emails =
            Append(@, [response_id |-> i,
                       action |-> generate_follow_up_email(response.follow_up_action)])]
    ELSE IF response.follow_up_action = "escalate_to_human" THEN
        [acc EXCEPT !.pending_actions =
            Append(@, [response_id |-> i, action |-> "human_review"])]
    ELSE acc

\* for response_dict in state["processed_responses"]: ...
RECURSIVE RouteFrom(_, _, _, _)
RouteFrom(i, processed_responses, acc, auto_respond_to_questions) ==
    IF i > Len(processed_responses) THEN acc
    ELSE RouteFrom(i + 1, processed_responses,
                   RouteResponse(i, processed_responses[i], acc, auto_respond_to_questions),
                   auto_respond_to_questions)

\* nodes/response.py simulate_candidate_responses: a random sample of
\* int(len(sent_emails) * 0.6) of the sent emails, in any order; each response
\* names the email it answers.  No filter on the email's status.
NumSimulated(n) == (n * 6) \div 10

SimulatedResponses(sent_emails) ==
    { s \in [1..NumSimulated(Len(sent_emails)) -> 1..Len(sent_emails)] :
        \A i, j \in DOMAIN s : i # j => s[i] # s[j] }

(***************************************************************************)
(* The response-management stage.                                          *)
(*   pc = "initialize_response_mgmt": workflow.invoke on the state built   *)
(*        by create_response_management_state;                             *)
(*   pc = "execute_actions": the router node called on a state whose       *)
(*        processed_responses and available_interview_slots are filled.    *)
(***************************************************************************)
EmailStatusAfterSend == { "delivered", "failed" }

\* agents/response.py generate_response_metrics: the counts the model follows.
generate_response_metrics(responses) ==
    [ total_responses |-> Len(responses),
      interviews_scheduled |->
          Cardinality({ i \in DOMAIN responses : responses[i].interview_scheduled }) ]

RMOff ==
    [ pc |-> "off", entry |-> "off",
      sent_emails |-> <<>>, incoming_responses |-> <<>>,
      processed_responses |-> <<>>, available_interview_slots |-> <<>>,
      scheduled_interviews |-> <<>>, follow_up_emails |-> <<>>,
      pending_actions |-> <<>>, processing_errors |-> <<>>,
      auto_respond_to_questions |-> TRUE,
      total_responses |-> 0,
      response_metrics |-> <<>>,
      processing_complete |-> FALSE, response_management_complete |-> FALSE ]

\* workflows/response.py create_response_management_state
create_response_management_state(sent_emails) ==
    [ RMOff EXCEPT !.pc = "initialize_response_mgmt", !.entry = "workflow",
                   !.sent_emails = sent_emails ]

RMInit ==
    /\ \/ \E sent \in SeqsUpTo(EmailStatusAfterSend, MaxEmails) :
             rm = create_response_management_state(
                     [i \in 1..Len(sent) |-> [email_id |-> i, status |-> sent[i]]])
       \/ \E rs \in SeqsUpTo(RoutedResponses, MaxResponses)
                        \cup SeqsUpTo(ScheduleRequests, MaxRequests),
             pool \in SlotPools, auto \in BOOLEAN :
             rm = [ RMOff EXCEPT !.pc = "execute_actions", !.entry = "node",
                                 !.processed_responses = rs,
                                 !.total_responses = Len(rs),
                                 !.response_metrics = generate_response_metrics(rs),
                                 !.available_interview_slots = pool,
                                 !.auto_respond_to_questions = auto ]
    /\ agent = Idle /\ cand = Idle /\ srcg = Idle /\ scr = Idle /\ outr = Idle /\ pipe = Idle /\ mail = Idle

\* nodes/response.py initialize_response_management.  Line 56 calls
\* .model_dump() on the list generate_interview_slots() returns: AttributeError,
\* outside any try, on every call.  The fields written before it keep their values.
InitializeResponseManagement ==
    /\ rm.pc = "initialize_response_mgmt"
    /\ \E sim \in SimulatedResponses(rm.sent_emails) :
         LET incoming == IF rm.incoming_responses = <<>>
                         THEN [i \in DOMAIN sim |->
                                    [original_email_id |-> rm.sent_emails[sim[i]].email_id]]
                         ELSE rm.incoming_responses
         IN  rm' = [rm EXCEPT !.incoming_responses = incoming,
                              !.total_responses = Len(incoming),
                              !.processing_complete = FALSE,
                              !.response_management_complete = FALSE,
                              !.pc = "raised"]
    /\ UNCHANGED <<agent, cand, srcg, scr, outr, pipe, mail>>

\* nodes/response.py execute_follow_up_actions
ExecuteFollowUpActions ==
    /\ rm.pc = "execute_actions"
    /\ LET out == RouteFrom(1, rm.processed_responses,
                            [ available_slots      |-> rm.available_interview_slots,
                              scheduled_interviews |-> <<>>,
                              follow_up_emails     |-> <<>>,
                              pending_actions      |-> <<>> ],
                            rm.auto_respond_to_questions)
       IN  rm' = [rm EXCEPT !.follow_up_emails = out.follow_up_emails,
                            !.scheduled_interviews = out.scheduled_interviews,
                            !.pending_actions = out.pending_actions,
                            !.available_interview_slots = out.available_slots,
                            !.pc = "send_communications"]
    /\ UNCHANGED <<agent, cand, srcg, scr, outr, pipe, mail>>

\* nodes/response.py send_follow_up_communications: simulated sends, no field changes.
SendFollowUpCommunications ==
    /\ rm.pc = "send_communications"
    /\ rm' = [rm EXCEPT !.pc = "finalize_response_mgmt"]
    /\ UNCHANGED <<agent, cand, srcg, scr, outr, pipe, mail>>

\* nodes/response.py finalize_response_management
FinalizeResponseManagement ==
    /\ rm.pc = "finalize_response_mgmt"
    /\ rm' = [rm EXCEPT !.processing_complete = TRUE,
                        !.response_management_complete = TRUE,
                        !.pc = "END"]
    /\ UNCHANGED <<agent, cand, srcg, scr, outr, pipe, mail>>

RMNext ==
    \/ InitializeResponseManagement
    \/ ExecuteFollowUpActions
    \/ SendFollowUpCommunications
    \/ FinalizeResponseManagement

SpecRM == RMInit /\ [][RMNext]_vars

(***************************************************************************)
(* Claims about the response-management stage (checked under SpecRM).      *)
(***************************************************************************)
RouterDone == rm.entry = "node" /\ rm.pc \in {"send_communications", "finalize_response_mgmt", "END"}

ScheduledFor(i) == \E k \in DOMAIN rm.scheduled_interviews : rm.scheduled_interviews[k].response_id = i
EmailFor(i)     == \E k \in DOMAIN rm.follow_up_emails : rm.follow_up_emails[k].response_id = i
PendingFor(i)   == \E k \in DOMAIN rm.pending_actions : rm.pending_actions[k].response_id = i

\* C1: within one run no two scheduled interviews use the same slot, and a slot
\* that was assigned is no longer in the pool of available slots.
C1_SlotExclusivity ==
    /\ \A i, j \in DOMAIN rm.scheduled_interviews :
          i # j => rm.scheduled_interviews[i].slot_id # rm.scheduled_interviews[j].slot_id
    /\ \A i \in DOMAIN rm.scheduled_interviews :
          \A k \in DOMAIN rm.available_interview_slots :
              rm.available_interview_slots[k].slot_id # rm.scheduled_interviews[i].slot_id

\* Two responses were given an interview in the same run.
C1_Witness == RouterDone /\ Len(rm.scheduled_interviews) >= 2

\* C2: a schedule_interview response that found no slot available has a
\* pending_actions entry once the router has run.
C2_NoSlotBecomesPending ==
    RouterDone =>
        \A i \in DOMAIN rm.processed_responses :
            ( /\ rm.processed_responses[i].follow_up_action = "schedule_interview"
              /\ rm.processed_responses[i].interview_type # None
              /\ ~ScheduledFor(i) )
            => PendingFor(i)

\* C29: at the end of a response-management run, interviews_scheduled in
\* response_metrics is the number of entries of scheduled_interviews.
C29_ScheduledCountMatches ==
    (rm.entry = "node" /\ rm.pc = "END")
        => rm.response_metrics.interviews_scheduled = Len(rm.scheduled_interviews)

\* C25: after the router has run, every processed response whose follow-up
\* action is not no_action has a scheduled interview, a follow-up email or a
\* pending_actions entry of its own.
C25_NoResponseDropped ==
    RouterDone =>
        \A i \in DOMAIN rm.processed_responses :
            rm.processed_responses[i].follow_up_action # "no_action"
                => (ScheduledFor(i) \/ EmailFor(i) \/ PendingFor(i))

\* The same for the actions the router has a branch for, schedule_interview
\* apart.
RoutedActionsHaveOutcome ==
    RouterDone =>
        \A i \in DOMAIN rm.processed_responses :
            ( /\ rm.processed_responses[i].follow_up_action
                    \notin {"no_action", "schedule_later", "remove_from_list", "schedule_interview"} )
                => (ScheduledFor(i) \/ EmailFor(i) \/ PendingFor(i))

\* C3: a response flagged human_review_needed gets no scheduled interview and
\* no automated follow-up email.
C3_HumanReviewNotAutoRouted ==
    RouterDone =>
        \A i \in DOMAIN rm.processed_responses :
            rm.processed_responses[i].human_review_needed => ~ScheduledFor(i) /\ ~EmailFor(i)

\* C8: every run of the response-management workflow that has ended has ended
\* in finalize_response_management with response_management_complete = true.
C8_WorkflowReachesFinalize ==
    (rm.entry = "workflow" /\ rm.pc \in {"END", "raised"})
        => (rm.pc = "END" /\ rm.response_management_complete)

\* The slot_id scheduled for the response at position i, 0 when it has none.
SlotGiven(scheduled_interviews, i) ==
    IF \E k \in DOMAIN scheduled_interviews : scheduled_interviews[k].response_id = i
    THEN LET k == CHOOSE k \in DOMAIN scheduled_interviews :
                      scheduled_interviews[k].response_id = i
         IN  scheduled_interviews[k].slot_id
    ELSE NoSlot.slot_id

\* The slot the allocation policy names for the request at position i: of the
\* pool's slots not given to an earlier request, the first of the requested
\* type, else the first of any type, else none.
SlotByPolicy(pool, processed_responses, scheduled_interviews, i) ==
    LET still_available ==
            SelectSeq(pool, LAMBDA slot :
                \A j \in 1..(i-1) : SlotGiven(scheduled_interviews, j) # slot.slot_id)
        of_type ==
            SelectSeq(still_available, LAMBDA slot :
                slot.interview_type = processed_responses[i].interview_type)
    IN  IF of_type # <<>> THEN of_type[1].slot_id
        ELSE IF still_available # <<>> THEN still_available[1].slot_id
        ELSE NoSlot.slot_id

\* C15: the router gives every request for an interview of some type, in the
\* order of the list, the first still-available slot of the requested type,
\* else the first still-available slot of any type, else none.
C15_AllocationFollowsPolicy ==
    [][ rm.pc = "execute_actions" =>
            \A i \in DOMAIN rm.processed_responses :
                ( /\ rm.processed_responses[i].follow_up_action = "schedule_interview"
                  /\ rm.processed_responses[i].interview_type # None )
                    => SlotGiven(rm'.scheduled_interviews, i)
                         = SlotByPolicy(rm.available_interview_slots, rm.processed_responses,
                                        rm'.scheduled_interviews, i) ]_vars

\* Three requests for a video interview against a pool of one video slot and
\* one phone slot: the first has the video slot, the second the phone slot, the
\* third none.
C15_Witness ==
    /\ RouterDone
    /\ Len(rm.processed_responses) = 3
    /\ \A i \in 1..3 :
          /\ rm.processed_responses[i].follow_up_action = "schedule_interview"
          /\ rm.processed_responses[i].interview_type = "video_interview"
    /\ Len(rm.scheduled_interviews) = 2
    /\ \A i \in 1..2 : rm.scheduled_interviews[i].response_id = i
    /\ rm.scheduled_interviews[1].interview_type = "video_interview"
    /\ rm.scheduled_interviews[2].interview_type = "phone_screen"
    /\ SlotGiven(rm.scheduled_interviews, 3) = NoSlot.slot_id
    /\ rm.available_interview_slots = <<>>

(***************************************************************************)
(* ResponseManagementAgent (agents/response.py): one call of               *)
(* process_candidate_response.  Confidence scores are in percent.          *)
(***************************************************************************)
MaxQuestions == 4      \* questions the classifier may list for one response

confidence_threshold == 70      \* ResponseConfig.confidence_threshold = 0.7

ConfidenceScores == {0, 65, 70}

\* ResponseConfig(**state["response_config"]): the default threshold and a
\* lower one a caller configures.
ResponseConfig == { [confidence_threshold |-> t] : t \in {50, confidence_threshold} }

\* Question sentences the patterns of _extract_questions match in the text.
QuestionMatches == {0, 6}

PriorityLevels == 1..5

Min(a, b) == IF a < b THEN a ELSE b

Max(a, b) == IF a > b THEN a ELSE b

\* Outcomes of the LLM call and the output parser inside analyze_response.
ClassifierOutcome == { "parsed", "raises", "unparsable" }

ResponseAnalysis ==
    [ response_type : ResponseType, sentiment : ResponseSentiment,
      confidence_score : ConfidenceScores, recommended_action : FollowUpAction,
      priority_level : PriorityLevels, questions : 0..MaxQuestions,
      key_phrases : SUBSET {"video", "phone"} ]

\* Mutation of DefaultAnalysis: the fallback no longer escalates.
DefaultAnalysisNoEscalation ==
    [ response_type |-> "unknown", sentiment |-> "neutral", confidence_score |-> 0,
      recommended_action |-> "no_action", priority_level |-> 3,
      questions |-> 0, key_phrases |-> {} ]

\* analyze_response, except branch: the default analysis.
DefaultAnalysis ==
    [ response_type |-> "unknown", sentiment |-> "neutral", confidence_score |-> 0,
      recommended_action |-> "escalate_to_human", priority_level |-> 3,
      questions |-> 0, key_phrases |-> {} ]

\* analyze_response: the parsed analysis, or the default one when the LLM call
\* or the parser raises.
analyze_response(classifier, llm_analysis) ==
    IF classifier = "parsed" THEN llm_analysis ELSE DefaultAnalysis

\* Mutation of _calculate_priority: the sentiment step without its limits.
PriorityWithoutLimits(analysis) ==
    LET p0 == analysis.priority_level
        p1 == CASE analysis.response_type = "interested"     -> Min(p0, 2)
                [] analysis.response_type = "questions"      -> Min(p0, 3)
                [] analysis.response_type = "not_interested" -> Max(p0, 4)
                [] OTHER                                     -> p0
    IN  CASE analysis.sentiment = "positive" -> p1 - 1
          [] analysis.sentiment = "negative" -> p1 + 1
          [] OTHER                           -> p1

_calculate_priority(analysis) ==
    LET p0 == analysis.priority_level
        p1 == CASE analysis.response_type = "interested"     -> Min(p0, 2)
                [] analysis.response_type = "questions"      -> Min(p0, 3)
                [] analysis.response_type = "not_interested" -> Max(p0, 4)
                [] OTHER                                     -> p0
    IN  CASE analysis.sentiment = "positive" -> Max(1, p1 - 1)
          [] analysis.sentiment = "negative" -> Min(5, p1 + 1)
          [] OTHER                           -> p1

_recommend_interview_type(analysis, senior_job_title) ==
    IF analysis.response_type \notin {"interested", "questions"} THEN None
    ELSE IF "video" \in analysis.key_phrases THEN "video_interview"
    ELSE IF "phone" \in analysis.key_phrases THEN "phone_screen"
    ELSE IF senior_job_title THEN "video_interview"
    ELSE "phone_screen"

\* Mutation of _needs_human_review: the confidence test is gone.
NeedsReviewByTypeOnly(analysis, config) ==
    IF analysis.response_type \in {"spam_complaint", "unknown"} THEN TRUE
    ELSE IF analysis.response_type = "questions" /\ analysis.questions > 3 THEN TRUE
    ELSE FALSE

_needs_human_review(analysis, config) ==
    IF analysis.confidence_score < config.confidence_threshold THEN TRUE
    ELSE IF analysis.response_type \in {"spam_complaint", "unknown"} THEN TRUE
    ELSE IF analysis.response_type = "questions" /\ analysis.questions > 3 THEN TRUE
    ELSE FALSE

\* _extract_questions: the matches, without duplicates, cut to five.
_extract_questions(matches) == Min(matches, 5)

\* process_candidate_response, except branch: the minimal response.
MinimalResponse ==
    [ response_type |-> "unknown", sentiment |-> "neutral", confidence_score |-> 0,
      questions |-> 0, follow_up_action |-> "escalate_to_human", interview_type |-> None,
      priority_level |-> 5, processed_by_llm |-> FALSE, human_review_needed |-> TRUE ]

\* process_candidate_response.  content_is_text = FALSE is a raw response whose
\* content is not a string: the regular-expression extraction raises and the
\* except branch answers.
process_candidate_response(classifier, llm_analysis, content_is_text, senior_job_title, matches, config) ==
    LET analysis == analyze_response(classifier, llm_analysis)
    IN  IF ~content_is_text THEN MinimalResponse
        ELSE [ response_type |-> analysis.response_type, sentiment |-> analysis.sentiment,
               confidence_score |-> analysis.confidence_score,
               questions |-> _extract_questions(matches),
               follow_up_action |-> analysis.recommended_action,
               interview_type |-> _recommend_interview_type(analysis, senior_job_title),
               priority_level |-> _calculate_priority(analysis),
               processed_by_llm |-> TRUE,
               human_review_needed |-> _needs_human_review(analysis, config) ]

\* What the LLM produced when no analysis could be parsed from it: nothing the
\* agent may rely on.
NoAnalysis ==
    [ response_type |-> "interested", sentiment |-> "positive", confidence_score |-> 70,
      recommended_action |-> "schedule_interview", priority_level |-> 1,
      questions |-> 0, key_phrases |-> {} ]

AgentInit ==
    /\ \E c \in ClassifierOutcome, t \in BOOLEAN, sj \in BOOLEAN,
          m \in QuestionMatches, config \in ResponseConfig :
          \E a \in (IF c = "parsed" THEN ResponseAnalysis ELSE {NoAnalysis}) :
              agent = [ pc |-> "call", classifier |-> c, llm_analysis |-> a,
                        content_is_text |-> t, senior_job_title |-> sj,
                        matches |-> m, config |-> config,
                        response |-> MinimalResponse ]
    /\ rm = RMOff /\ cand = Idle /\ srcg = Idle /\ scr = Idle /\ outr = Idle /\ pipe = Idle /\ mail = Idle

ProcessCandidateResponse ==
    /\ agent.pc = "call"
    /\ agent' = [agent EXCEPT
                    !.pc = "returned",
                    !.response = process_candidate_response(agent.classifier, agent.llm_analysis,
                                                            agent.content_is_text, agent.senior_job_title,
                                                            agent.matches, agent.config)]
    /\ UNCHANGED <<rm, cand, srcg, scr, outr, pipe, mail>>

AgentNext == ProcessCandidateResponse

SpecAgent == AgentInit /\ [][AgentNext]_vars

\* The base priority after the response-type step: at most 2 for interested, at
\* most 3 for questions, at least 4 for not_interested.
PriorityByType(response_type, base) ==
    IF response_type = "interested" THEN (IF base > 2 THEN 2 ELSE base)
    ELSE IF response_type = "questions" THEN (IF base > 3 THEN 3 ELSE base)
    ELSE IF response_type = "not_interested" THEN (IF base < 4 THEN 4 ELSE base)
    ELSE base

\* The priority after the sentiment step: one better for positive, never
\* below 1; one worse for negative, never above 5.
PriorityBySentiment(sentiment, priority) ==
    IF sentiment = "positive" THEN (IF priority > 1 THEN priority - 1 ELSE 1)
    ELSE IF sentiment = "negative" THEN (IF priority < 5 THEN priority + 1 ELSE 5)
    ELSE priority

\* C24: the priority of a response analysed by the classifier is the
\* classifier's base priority after the response-type step and then the
\* sentiment step, and it lies in 1..5.
C24_PriorityPolicy ==
    (agent.pc = "returned" /\ agent.classifier = "parsed" /\ agent.content_is_text) =>
        /\ agent.response.priority_level
             = PriorityBySentiment(agent.llm_analysis.sentiment,
                   PriorityByType(agent.llm_analysis.response_type,
                                  agent.llm_analysis.priority_level))
        /\ agent.response.priority_level \in 1..5

\* An interested, positive response with base priority 5 came out with
\* priority 1.
C24_Witness ==
    /\ agent.pc = "returned" /\ agent.classifier = "parsed" /\ agent.content_is_text
    /\ agent.llm_analysis.response_type = "interested"
    /\ agent.llm_analysis.sentiment = "positive"
    /\ agent.llm_analysis.priority_level = 5
    /\ agent.response.priority_level = 1

C13_LowConfidenceOrRiskyTypeFlagged ==
    ( /\ agent.pc = "returned"
      /\ \/ agent.response.confidence_score < agent.config.confidence_threshold
         \/ agent.response.response_type \in {"spam_complaint", "unknown"} )
        => agent.response.human_review_needed

\* Confidence 0.65 under the default threshold 0.7 on a response classified as
\* interested: the call has returned.
C13_Witness ==
    /\ agent.pc = "returned"
    /\ agent.response.processed_by_llm
    /\ agent.response.confidence_score = 65
    /\ agent.config.confidence_threshold = confidence_threshold
    /\ agent.response.response_type = "interested"

\* C14: a returned response of type questions that carries more than three
\* extracted questions is flagged for human review.
C14_ManyQuestionsFlagged ==
    ( /\ agent.pc = "returned"
      /\ agent.response.response_type = "questions"
      /\ agent.response.questions > 3 )
        => agent.response.human_review_needed

(***************************************************************************)
(* Candidate status: CandidateProfile.update_status (models/sourcing.py)   *)
(* and InterviewAgent._update_candidate_from_analysis, the two places that *)
(* write a candidate's status.  Scores are in percent.                     *)
(***************************************************************************)
MaxUpdates == 4        \* status updates applied to one candidate in a run

\* models/sourcing.py CandidateStatus.
CandidateStatus ==
    { "sourced", "parsed", "screened", "shortlisted", "contacted", "responded",
      "interviewed", "hired", "rejected" }

\* models/candidate.py CandidateStatus, the values interview_agent.py assigns.
InterviewCandidateStatus == { "pending", "screened", "qualified", "rejected" }

\* utils/response_analyzer.py FitLevel.
FitLevel == { "strong_fit", "good_fit", "moderate_fit", "poor_fit" }

OverallScores == { 50, 60, 80 }

\* CandidateProfile.update_status: assigns new_status, whatever the current one.
update_status(candidate, new_status) == [candidate EXCEPT !.status = new_status]

\* InterviewAgent._update_candidate_from_analysis.
_update_candidate_from_analysis(candidate, overall_score, fit_level) ==
    [candidate EXCEPT !.interview_status =
        IF overall_score >= 80 /\ fit_level \in {"strong_fit", "good_fit"} THEN "qualified"
        ELSE IF overall_score >= 60 THEN "screened"
        ELSE "rejected"]

StatusInit ==
    /\ cand = [pc |-> "live", status |-> "sourced", interview_status |-> "pending", updates |-> 0]
    /\ rm = RMOff /\ agent = Idle /\ srcg = Idle /\ scr = Idle /\ outr = Idle /\ pipe = Idle /\ mail = Idle

UpdateStatus ==
    /\ cand.pc = "live"
    /\ cand.updates < MaxUpdates
    /\ \E new_status \in CandidateStatus :
          cand' = [update_status(cand, new_status) EXCEPT !.updates = @ + 1]
    /\ UNCHANGED <<rm, agent, srcg, scr, outr, pipe, mail>>

UpdateCandidateFromAnalysis ==
    /\ cand.pc = "live"
    /\ cand.updates < MaxUpdates
    /\ \E overall_score \in OverallScores, fit_level \in FitLevel :
          cand' = [_update_candidate_from_analysis(cand, overall_score, fit_level)
                      EXCEPT !.updates = @ + 1]
    /\ UNCHANGED <<rm, agent, srcg, scr, outr, pipe, mail>>

StatusNext == UpdateStatus \/ UpdateCandidateFromAnalysis

SpecStatus == StatusInit /\ [][StatusNext]_vars

\* The lifecycle sequence of a candidate's status.
Lifecycle == << "sourced", "screened", "shortlisted", "contacted", "responded", "interviewed" >>

LifecycleIndex(status) == CHOOSE i \in 1..Len(Lifecycle) : Lifecycle[i] = status

\* C5: a status update never moves a candidate to an earlier position of the
\* lifecycle sequence.
C5_StatusNeverReverts ==
    [][ (cand.status \in Range(Lifecycle) /\ cand'.status \in Range(Lifecycle))
            => LifecycleIndex(cand'.status) >= LifecycleIndex(cand.status) ]_vars

(***************************************************************************)
(* Sourcing stage: nodes/sourcing.py under the graph of                    *)
(* workflows/sourcing.py.                                                  *)
(***************************************************************************)
MaxChannels == 2       \* channels in sourcing_channels
MaxFound    == 1       \* candidates one pass over a channel returns
MaxPasses   == 4       \* passes of execute_sourcing followed in one run

SourcingChannels == { "linkedin", "indeed", "github" }

\* agents/sourcing.py source_from_channel: the channels of tool_map.
ToolMap == { "linkedin", "indeed", "database" }

DistinctChannelLists ==
    { cs \in SeqsUpTo(SourcingChannels, MaxChannels) :
        \A i, j \in DOMAIN cs : i # j => cs[i] # cs[j] }

\* source_from_channel: how many candidates a pass over the channel may return.
\* The ValueError of an unknown channel and whatever the tool raises are caught
\* inside (lines 87-89) and give []: the call never raises.
source_from_channel(channel, tool_ok) ==
    IF channel \in ToolMap /\ tool_ok THEN 0..MaxFound ELSE {0}

\* state["sourcing_metrics"][channel] = entry
SetMetrics(sourcing_metrics, channel, entry) ==
    [ch \in DOMAIN sourcing_metrics \cup {channel} |->
        IF ch = channel THEN entry ELSE sourcing_metrics[ch]]

\* check_sourcing_completion: the channels not yet in channels_completed.
remaining_channels(state) ==
    SelectSeq(state.sourcing_channels, LAMBDA ch : ch \notin Range(state.channels_completed))

check_sourcing_completion(state) ==
    IF remaining_channels(state) # <<>> THEN "continue_sourcing" ELSE "sourcing_complete"

\* check_sourcing_completion is the conditional-edge function of the graph, and
\* it assigns current_channel / sourcing_complete on the state it is handed.
\* Whether an assignment made by an edge function reaches the graph state is
\* decided by the graph runtime (a node's return value is what it stores):
\* router_writes_kept is that outcome, fixed for a run.
RouterWrites(state) ==
    IF ~state.router_writes_kept THEN state
    ELSE IF remaining_channels(state) # <<>>
         THEN [state EXCEPT !.current_channel = remaining_channels(state)[1]]
         ELSE [state EXCEPT !.sourcing_complete = TRUE]

SourcingInit ==
    /\ \E cs \in DistinctChannelLists, kept \in BOOLEAN :
          srcg = [ pc |-> "initialize_sourcing", sourcing_channels |-> cs,
                   current_channel |-> "", channels_completed |-> <<>>,
                   total_candidates_found |-> 0, sourcing_complete |-> FALSE,
                   sourcing_metrics |-> <<>>, errors |-> <<>>,
                   router_writes_kept |-> kept ]
    /\ rm = RMOff /\ agent = Idle /\ cand = Idle /\ scr = Idle /\ outr = Idle /\ pipe = Idle /\ mail = Idle

InitializeSourcing ==
    /\ srcg.pc = "initialize_sourcing"
    /\ srcg' = [srcg EXCEPT
                   !.channels_completed = <<>>, !.total_candidates_found = 0,
                   !.sourcing_metrics = <<>>, !.errors = <<>>,
                   !.sourcing_complete = FALSE,
                   !.current_channel = IF srcg.sourcing_channels # <<>>
                                       THEN srcg.sourcing_channels[1] ELSE @,
                   !.pc = "execute_sourcing"]
    /\ UNCHANGED <<rm, agent, cand, scr, outr, pipe, mail>>

\* execute_sourcing, then the conditional edge out of it.  The try block
\* (lines 50-71) holds the call of source_from_channel, which returns instead of
\* raising, so the except branch (lines 73-90) is never taken.
ExecuteSourcing ==
    /\ srcg.pc = "execute_sourcing"
    /\ Len(srcg.channels_completed) < MaxPasses
    /\ \E tool_ok \in BOOLEAN :
       \E found \in source_from_channel(srcg.current_channel, tool_ok) :
          LET raised == FALSE
              after == [srcg EXCEPT
                           !.sourcing_metrics =
                               SetMetrics(@, srcg.current_channel,
                                          IF raised
                                          THEN [candidates_found |-> 0, success |-> FALSE]
                                          ELSE [candidates_found |-> found, success |-> TRUE]),
                           !.errors = IF raised THEN Append(@, srcg.current_channel) ELSE @,
                           !.channels_completed = Append(@, srcg.current_channel),
                           !.total_candidates_found = @ + found]
          IN  srcg' = [RouterWrites(after) EXCEPT
                          !.pc = IF check_sourcing_completion(after) = "continue_sourcing"
                                 THEN "execute_sourcing" ELSE "finalize_sourcing"]
    /\ UNCHANGED <<rm, agent, cand, scr, outr, pipe, mail>>

FinalizeSourcing ==
    /\ srcg.pc = "finalize_sourcing"
    /\ srcg' = [srcg EXCEPT !.pc = "END"]
    /\ UNCHANGED <<rm, agent, cand, scr, outr, pipe, mail>>

SourcingNext == InitializeSourcing \/ ExecuteSourcing \/ FinalizeSourcing

SpecSourcing == SourcingInit /\ [][SourcingNext]_vars

\* C19: a channel that has been sourced and is not one the agent has a tool for
\* has left a record of its failure: an entry in errors and success = false in
\* the channel's metrics.
C19_ChannelFailureRecorded ==
    \A i \in DOMAIN srcg.channels_completed :
        srcg.channels_completed[i] \notin ToolMap
            => /\ srcg.errors # <<>>
               /\ srcg.channels_completed[i] \in DOMAIN srcg.sourcing_metrics
               /\ ~srcg.sourcing_metrics[srcg.channels_completed[i]].success

\* C7: no channel is sourced twice in one run of the sourcing loop.
C7_EachChannelSourcedOnce ==
    \A i, j \in DOMAIN srcg.channels_completed :
        i # j => srcg.channels_completed[i] # srcg.channels_completed[j]

(***************************************************************************)
(* Screening stage (nodes/screening.py, workflows/screening.py), then the  *)
(* outreach stage (nodes/outreach.py, workflows/outreach.py), then the     *)
(* intake of the response-management stage.  Scores are in percent.  A     *)
(* candidate carries what ScreeningAgent's analysis finds for it; its      *)
(* source_id is its position in the list it came in.                       *)
(***************************************************************************)
MaxCandidates == 2     \* candidates in the list a screening run starts from

\* What _analyze_* and _calculate_scores find for a candidate.
ScreeningProfiles ==
    { [weighted_score |-> w, missing_critical_skills |-> 0,
       experience_level_match |-> "meets", experience_score |-> 60] : w \in {55, 65, 69, 75} }
    \cup
    { [weighted_score |-> 75, missing_critical_skills |-> 3,
       experience_level_match |-> "meets", experience_score |-> 60],
      [weighted_score |-> 75, missing_critical_skills |-> 0,
       experience_level_match |-> "under", experience_score |-> 20] }

\* Addresses: none, one with an @ but no domain suffix, a well-formed one.
EmailAddresses == { "", "dev@localhost", "dev@example.com" }

\* OutreachAgent._is_valid_email: local part, @, domain, dot, suffix of 2+ letters.
_is_valid_email(email) == email \in { "dev@example.com" }

\* The shape of a candidate record.  "well_formed": CandidateProfile accepts it.
\* "bad_skills": skills is a string, not a list; CandidateProfile rejects it.
\* "bad_experience": experience_years is a word, not a number; CandidateProfile
\* rejects it and so does ScreeningResult.
RecordShapes == { "well_formed", "bad_skills", "bad_experience" }

\* Candidate records less their source_id: the well-formed ones, and one record
\* of each other shape.
CandidateRecords ==
    { [email |-> e, profile |-> p, record |-> "well_formed"] :
        e \in EmailAddresses, p \in ScreeningProfiles }
    \cup
    { [email |-> "dev@example.com",
       profile |-> [weighted_score |-> 75, missing_critical_skills |-> 0,
                    experience_level_match |-> "meets", experience_score |-> 60],
       record |-> shape] : shape \in RecordShapes \ {"well_formed"} }

CandidateLists ==
    { [i \in 1..Len(ps) |-> [source_id |-> i, email |-> ps[i].email,
                             profile |-> ps[i].profile, record |-> ps[i].record]] :
        ps \in SeqsUpTo(CandidateRecords, MaxCandidates) }

\* (pass_threshold, shortlist_threshold): the defaults of ScreeningCriteria, the
\* values main.py passes, and a caller's criteria with the two the other way round.
ScreeningCriteria ==
    { [pass_threshold |-> 60, shortlist_threshold |-> 75],
      [pass_threshold |-> 60, shortlist_threshold |-> 70],
      [pass_threshold |-> 70, shortlist_threshold |-> 60] }

\* Mutation of _make_decisions: the missing-skills rule is gone.
DecideWithoutSkillsRule(result, criteria) ==
    IF result.experience_level_match = "under" /\ result.experience_score < 30 THEN
        [passes_screening |-> FALSE, recommended_for_shortlist |-> FALSE]
    ELSE
        [passes_screening |-> result.weighted_score >= criteria.pass_threshold,
         recommended_for_shortlist |-> result.weighted_score >= criteria.shortlist_threshold]

\* Mutation of _make_decisions: only a passing candidate is recommended.
ShortlistOnlyIfPassed(result, criteria) ==
    IF result.missing_critical_skills > 2 THEN
        [passes_screening |-> FALSE, recommended_for_shortlist |-> FALSE]
    ELSE IF result.experience_level_match = "under" /\ result.experience_score < 30 THEN
        [passes_screening |-> FALSE, recommended_for_shortlist |-> FALSE]
    ELSE
        [passes_screening |-> result.weighted_score >= criteria.pass_threshold,
         recommended_for_shortlist |-> /\ result.weighted_score >= criteria.pass_threshold
                                       /\ result.weighted_score >= criteria.shortlist_threshold]

\* ScreeningAgent._make_decisions.
_make_decisions(result, criteria) ==
    IF result.missing_critical_skills > 2 THEN
        [passes_screening |-> FALSE, recommended_for_shortlist |-> FALSE]
    ELSE IF result.experience_level_match = "under" /\ result.experience_score < 30 THEN
        [passes_screening |-> FALSE, recommended_for_shortlist |-> FALSE]
    ELSE
        [passes_screening |-> result.weighted_score >= criteria.pass_threshold,
         recommended_for_shortlist |-> result.weighted_score >= criteria.shortlist_threshold]

\* screen_candidate, except branch (lines 97-121): the result with every score
\* 0 and the failure in concerns.
MinimalResult(candidate_data) ==
    [ raised |-> FALSE, candidate_id |-> candidate_data.source_id,
      weighted_score |-> 0, overall_score |-> 0, missing_critical_skills |-> 0,
      experience_level_match |-> "under", experience_score |-> 0,
      passes_screening |-> FALSE, recommended_for_shortlist |-> FALSE,
      concerns |-> {"Error during screening"} ]

\* ScreeningAgent.screen_candidate: the ScreeningResult of one candidate.  A
\* record CandidateProfile rejects raises inside the try block (line 49) and the
\* except branch answers with the minimal result; that result is a
\* ScreeningResult built from the same record, and when the record's
\* experience_years is not a number its validation raises too: raised = TRUE is
\* that ValidationError leaving the function.
screen_candidate(candidate_data, criteria) ==
    IF candidate_data.record = "well_formed" THEN
        LET decision == _make_decisions(candidate_data.profile, criteria)
        IN  [ raised |-> FALSE, candidate_id |-> candidate_data.source_id,
              weighted_score |-> candidate_data.profile.weighted_score,
              overall_score |-> candidate_data.profile.weighted_score,
              missing_critical_skills |-> candidate_data.profile.missing_critical_skills,
              experience_level_match |-> candidate_data.profile.experience_level_match,
              experience_score |-> candidate_data.profile.experience_score,
              passes_screening |-> decision.passes_screening,
              recommended_for_shortlist |-> decision.recommended_for_shortlist,
              concerns |-> {} ]
    ELSE IF candidate_data.record = "bad_skills" THEN MinimalResult(candidate_data)
    ELSE [MinimalResult(candidate_data) EXCEPT !.raised = TRUE]

\* An entry of a stage's processing_errors: the message, and the position of
\* the item it is about (0 when it is about no item).
ProcessingError(message, item) == [message |-> message, item |-> item]

\* The loop shared by screen_candidates_batch and screen_database_candidates,
\* and the state both publish after it.  An exception out of screen_candidate
\* is caught per candidate (lines 103-107): an entry in the local
\* processing_errors, no result, the loop goes on.
ScreenAll(state) ==
    LET criteria == state.screening_criteria
        raw      == state.raw_candidates
        result(i) == screen_candidate(raw[i], criteria)
        positions == [i \in DOMAIN raw |-> i]
        screened  == SelectSeq(positions, LAMBDA i : ~result(i).raised)
        passed    == SelectSeq(screened, LAMBDA i : result(i).passes_screening)
        shortlisted == SelectSeq(passed, LAMBDA i : result(i).recommended_for_shortlist)
        failed    == SelectSeq(positions, LAMBDA i : result(i).raised)
    IN  [state EXCEPT
            !.screening_results = [k \in DOMAIN screened |-> result(screened[k])],
            !.passed_candidates = [k \in DOMAIN passed |-> raw[passed[k]]],
            !.shortlisted_candidates = [k \in DOMAIN shortlisted |-> raw[shortlisted[k]]],
            !.processing_errors =
                [k \in DOMAIN failed |-> ProcessingError("Error screening candidate", failed[k])],
            !.screening_complete = TRUE,
            !.screening_metrics =
                [ total_processed |-> Len(raw), passed_count |-> Len(passed),
                  shortlisted_count |-> Len(shortlisted),
                  rejected_count |-> Len(raw) - Len(passed),
                  error_count |-> Len(failed) ]]

check_screening_completion(state) ==
    IF state.screening_complete THEN "screening_complete" ELSE "continue_screening"

\* workflows/screening.py create_database_screening_state; screening_metrics = {}.
create_database_screening_state(screening_criteria) ==
    [ pc |-> "initialize_db_screening", entry |-> "database",
      db_ok |-> TRUE, db_candidates |-> <<>>,
      raw_candidates |-> <<>>, screening_criteria |-> screening_criteria,
      total_candidates |-> 0, screening_complete |-> FALSE,
      screening_results |-> <<>>, passed_candidates |-> <<>>,
      shortlisted_candidates |-> <<>>, screening_metrics |-> <<>>,
      processing_errors |-> <<>> ]

\* A screening run: the database workflow over some database content (or a
\* database that cannot be opened), or the batch node over a list of candidates.
ScreeningStart ==
    \E criteria \in ScreeningCriteria, cs \in CandidateLists :
        \/ \E ok \in BOOLEAN :
              scr = [create_database_screening_state(criteria) EXCEPT
                        !.db_ok = ok, !.db_candidates = cs]
        \/ scr = [create_database_screening_state(criteria) EXCEPT
                     !.pc = "screen_candidates", !.entry = "batch",
                     !.raw_candidates = cs, !.total_candidates = Len(cs)]

\* initialize_database_screening: raw_candidates is what the database returns;
\* a database error is caught and leaves an empty list and one error.
initialize_database_screening(state) ==
    IF state.db_ok
    THEN [state EXCEPT !.raw_candidates = state.db_candidates,
                       !.total_candidates = Len(state.db_candidates),
                       !.screening_complete = (Len(state.db_candidates) = 0),
                       !.pc = "screen_db_candidates"]
    ELSE [state EXCEPT !.processing_errors =
                           << ProcessingError("Database initialization failed", 0) >>,
                       !.raw_candidates = <<>>, !.total_candidates = 0,
                       !.screening_complete = TRUE,
                       !.pc = "screen_db_candidates"]

\* screen_database_candidates, then the conditional edge out of it.  The summary
\* printed at the end divides by total_candidates (lines 219-221).
screen_database_candidates(state) ==
    IF Len(state.raw_candidates) = 0
    THEN [ScreenAll(state) EXCEPT !.pc = "raised"]
    ELSE [ScreenAll(state) EXCEPT
             !.pc = IF check_screening_completion(ScreenAll(state)) = "screening_complete"
                    THEN "finalize_screening" ELSE "screen_db_candidates"]

\* screen_candidates_batch, followed by finalize_screening as in the graph.
screen_candidates_batch(state) ==
    [ScreenAll(state) EXCEPT
        !.pc = IF check_screening_completion(ScreenAll(state)) = "screening_complete"
               THEN "finalize_screening" ELSE "screen_candidates"]

\* finalize_screening: the report divides by metrics['total_processed']
\* (lines 174-176).
finalize_screening(state) ==
    [state EXCEPT !.pc = IF state.screening_metrics.total_processed = 0
                         THEN "raised" ELSE "END"]

InitializeDatabaseScreening ==
    /\ scr.pc = "initialize_db_screening"
    /\ scr' = initialize_database_screening(scr)
    /\ UNCHANGED <<rm, agent, cand, srcg, outr, pipe, mail>>

ScreenDatabaseCandidates ==
    /\ scr.pc = "screen_db_candidates"
    /\ scr' = screen_database_candidates(scr)
    /\ UNCHANGED <<rm, agent, cand, srcg, outr, pipe, mail>>

ScreenCandidatesBatch ==
    /\ scr.pc = "screen_candidates"
    /\ scr' = screen_candidates_batch(scr)
    /\ UNCHANGED <<rm, agent, cand, srcg, outr, pipe, mail>>

FinalizeScreening ==
    /\ scr.pc = "finalize_screening"
    /\ scr' = finalize_screening(scr)
    /\ UNCHANGED <<rm, agent, cand, srcg, outr, pipe, mail>>

\* agents/outreach.py _load_default_templates: the template ids the agent has.
Templates == { "professional_outreach_v1" }

TemplateIds == { "initial_outreach_v1", "professional_outreach_v1" }

\* workflows/outreach.py create_outreach_state.
create_outreach_state(shortlisted_candidates) ==
    [ pc |-> "initialize_outreach",
      shortlisted_candidates |-> shortlisted_candidates,
      email_template_id |-> "initial_outreach_v1",
      campaign_status |-> "draft",
      emails_to_send |-> <<>>, sent_emails |-> <<>>,
      total_emails |-> Len(shortlisted_candidates),
      batch_results |-> [sent |-> <<>>, failed |-> <<>>],
      processing_errors |-> <<>>, outreach_complete |-> FALSE ]

\* The outreach stage is started on the screening stage's shortlist; the caller
\* may name another template than the one create_outreach_state puts in.
StartOutreach ==
    /\ scr.pc = "END"
    /\ outr.pc = "off"
    /\ \E template_id \in TemplateIds :
          outr' = [create_outreach_state(scr.shortlisted_candidates)
                      EXCEPT !.email_template_id = template_id]
    /\ UNCHANGED <<rm, agent, cand, srcg, scr, pipe, mail>>

InitializeOutreach ==
    /\ outr.pc = "initialize_outreach"
    /\ outr' = [outr EXCEPT
                   !.campaign_status = "preparing",
                   !.total_emails = Len(outr.shortlisted_candidates),
                   !.outreach_complete = (Len(outr.shortlisted_candidates) = 0),
                   !.pc = "prepare_emails"]
    /\ UNCHANGED <<rm, agent, cand, srcg, scr, pipe, mail>>

\* OutreachAgent.personalize_email: the CandidateEmail of one candidate.
personalize_email(email_id, candidate_data) ==
    [ email_id |-> email_id, candidate_id |-> candidate_data.source_id,
      candidate_email |-> candidate_data.email, status |-> "pending" ]

\* prepare_emails, the loop: one email per candidate that has an address.
RECURSIVE PrepareFrom(_, _, _)
PrepareFrom(i, shortlisted_candidates, acc) ==
    IF i > Len(shortlisted_candidates) THEN acc
    ELSE LET candidate == shortlisted_candidates[i]
         IN  PrepareFrom(i + 1, shortlisted_candidates,
                 IF candidate.email = ""
                 THEN [acc EXCEPT !.processing_errors = Append(@, ProcessingError("No email address", i))]
                 ELSE [acc EXCEPT !.emails_to_send =
                          Append(@, personalize_email(Len(acc.emails_to_send) + 1, candidate))])

PrepareEmails ==
    /\ outr.pc = "prepare_emails"
    /\ outr' =
          IF outr.email_template_id \notin Templates
          THEN [outr EXCEPT !.processing_errors = Append(@, ProcessingError("Template not found", 0)),
                            !.outreach_complete = TRUE,
                            !.pc = "send_emails"]
          ELSE LET out == PrepareFrom(1, outr.shortlisted_candidates,
                                      [emails_to_send |-> <<>>, processing_errors |-> <<>>])
               IN  [outr EXCEPT !.emails_to_send = out.emails_to_send,
                                !.processing_errors = out.processing_errors,
                                !.total_emails = Len(out.emails_to_send),
                                !.outreach_complete =
                                    IF Len(out.emails_to_send) = 0 THEN TRUE ELSE @,
                                !.pc = "send_emails"]
    /\ UNCHANGED <<rm, agent, cand, srcg, scr, pipe, mail>>

\* OutreachAgent.send_email: the status the email is left with; transport_ok is
\* what _send_via_smtp / _simulate_email_send returns.
send_email(email, transport_ok) ==
    IF ~_is_valid_email(email.candidate_email) THEN "failed"
    ELSE IF transport_ok THEN "delivered"
    ELSE "failed"

\* send_outreach_emails: send_batch_emails over emails_to_send, then every email
\* of the batch, whatever its status, goes into sent_emails.
SendOutreachEmails ==
    /\ outr.pc = "send_emails"
    /\ \E transport_ok \in [DOMAIN outr.emails_to_send -> BOOLEAN] :
          LET emails == [i \in DOMAIN outr.emails_to_send |->
                            [outr.emails_to_send[i] EXCEPT
                                !.status = send_email(outr.emails_to_send[i], transport_ok[i])]]
              ids(status) == LET hit == SelectSeq(emails, LAMBDA e : e.status = status)
                             IN  [i \in DOMAIN hit |-> hit[i].email_id]
          IN  outr' = [outr EXCEPT
                          !.sent_emails = emails,
                          !.batch_results = [sent |-> ids("delivered"), failed |-> ids("failed")],
                          !.campaign_status = "completed",
                          !.outreach_complete = TRUE,
                          !.pc = "track_responses"]
    /\ UNCHANGED <<rm, agent, cand, srcg, scr, pipe, mail>>

\* track_email_responses: each email of sent_emails is, by two random draws,
\* left as it is, marked opened, or marked opened and then replied.
TrackEmailResponses ==
    /\ outr.pc = "track_responses"
    /\ \E drawn \in [DOMAIN outr.sent_emails -> {"none", "opened", "replied"}] :
          outr' = [outr EXCEPT
                      !.sent_emails = [i \in DOMAIN outr.sent_emails |->
                          IF drawn[i] = "none" THEN outr.sent_emails[i]
                          ELSE [outr.sent_emails[i] EXCEPT !.status = drawn[i]]],
                      !.pc = "finalize_outreach"]
    /\ UNCHANGED <<rm, agent, cand, srcg, scr, pipe, mail>>

FinalizeOutreach ==
    /\ outr.pc = "finalize_outreach"
    /\ outr' = [outr EXCEPT !.pc = "END"]
    /\ UNCHANGED <<rm, agent, cand, srcg, scr, pipe, mail>>

\* The response-management stage is started on the outreach stage's sent_emails.
StartResponseManagement ==
    /\ outr.pc = "END"
    /\ rm.pc = "off"
    /\ rm' = create_response_management_state(outr.sent_emails)
    /\ UNCHANGED <<agent, cand, srcg, scr, outr, pipe, mail>>

StagesInit ==
    /\ ScreeningStart
    /\ rm = RMOff /\ agent = Idle /\ cand = Idle /\ srcg = Idle /\ outr = Idle /\ pipe = Idle /\ mail = Idle

StagesNext ==
    \/ InitializeDatabaseScreening
    \/ ScreenDatabaseCandidates
    \/ ScreenCandidatesBatch
    \/ FinalizeScreening
    \/ StartOutreach
    \/ InitializeOutreach
    \/ PrepareEmails
    \/ SendOutreachEmails
    \/ TrackEmailResponses
    \/ FinalizeOutreach
    \/ StartResponseManagement
    \/ InitializeResponseManagement

SpecStages == StagesInit /\ [][StagesNext]_vars

\* The email was sent successfully: send_batch_emails reported it in 'sent'.
SuccessfullySent(email_id) == email_id \in Range(outr.batch_results.sent)

\* C6: every candidate handed to outreach passed screening and was shortlisted,
\* and every email handed to response management, and every response derived
\* from one, belongs to an outreach email that was sent successfully.
C6_StageInputsSatisfyPredicate ==
    /\ outr.pc # "off" =>
          \A i \in DOMAIN outr.shortlisted_candidates :
              \E k \in DOMAIN scr.screening_results :
                  LET result == scr.screening_results[k]
                  IN  /\ result.candidate_id = outr.shortlisted_candidates[i].source_id
                      /\ result.passes_screening /\ result.recommended_for_shortlist
    /\ rm.pc # "off" =>
          /\ \A i \in DOMAIN rm.sent_emails : SuccessfullySent(rm.sent_emails[i].email_id)
          /\ \A i \in DOMAIN rm.incoming_responses :
                SuccessfullySent(rm.incoming_responses[i].original_email_id)

\* prepare_emails has run on a non-empty shortlist whose candidates all have an
\* email address.
PreparedForAll ==
    /\ outr.pc \in {"send_emails", "track_responses", "finalize_outreach", "END"}
    /\ outr.shortlisted_candidates # <<>>
    /\ \A i \in DOMAIN outr.shortlisted_candidates : outr.shortlisted_candidates[i].email # ""

\* C30: with the template id create_outreach_state puts into the state, an
\* outreach run over a non-empty shortlist whose candidates all have an email
\* address has prepared one email for each shortlisted candidate.
C30_DefaultStatePreparesEveryEmail ==
    (PreparedForAll /\ outr.email_template_id = create_outreach_state(<<>>).email_template_id)
        => /\ Len(outr.emails_to_send) = Len(outr.shortlisted_candidates)
           /\ \A i \in DOMAIN outr.shortlisted_candidates :
                 \E k \in DOMAIN outr.emails_to_send :
                    outr.emails_to_send[k].candidate_id = outr.shortlisted_candidates[i].source_id

\* The same with a template id the agent has.
KnownTemplatePreparesEveryEmail ==
    (PreparedForAll /\ outr.email_template_id \in Templates)
        => Len(outr.emails_to_send) = Len(outr.shortlisted_candidates)

\* C26: an email whose send failed keeps the status failed in sent_emails (it
\* is never marked opened or replied), and no incoming response of the
\* response-management stage names it as its original email.
C26_FailedEmailGetsNoResponse ==
    outr.pc # "off" =>
        \A k \in DOMAIN outr.batch_results.failed :
            LET email_id == outr.batch_results.failed[k]
            IN  /\ \A i \in DOMAIN outr.sent_emails :
                      outr.sent_emails[i].email_id = email_id
                          => outr.sent_emails[i].status = "failed"
                /\ \A r \in DOMAIN rm.incoming_responses :
                      rm.incoming_responses[r].original_email_id # email_id

\* The screening loop has run over raw_candidates.
BatchDone == scr.pc \in {"finalize_screening", "END", "raised"}

HasResult(source_id) ==
    \E k \in DOMAIN scr.screening_results : scr.screening_results[k].candidate_id = source_id

ResultOf(source_id) ==
    scr.screening_results[CHOOSE k \in DOMAIN scr.screening_results :
                              scr.screening_results[k].candidate_id = source_id]

InList(candidates, source_id) ==
    \E k \in DOMAIN candidates : candidates[k].source_id = source_id

\* C11: after the batch, every malformed record has an entry of its own in
\* processing_errors and is in neither passed_candidates nor
\* shortlisted_candidates, and every other candidate of the batch has a result.
C11_MalformedRecordLoggedAndSkipped ==
    BatchDone =>
        \A i \in DOMAIN scr.raw_candidates :
            scr.raw_candidates[i].record # "well_formed" =>
                /\ \E e \in DOMAIN scr.processing_errors : scr.processing_errors[e].item = i
                /\ ~InList(scr.passed_candidates, i)
                /\ ~InList(scr.shortlisted_candidates, i)
                /\ \A j \in DOMAIN scr.raw_candidates :
                      scr.raw_candidates[j].record = "well_formed" => HasResult(j)

\* C12: after the batch, a candidate missing more than two required skills has
\* passes_screening = false and recommended_for_shortlist = false in its result
\* and is in neither passed_candidates nor shortlisted_candidates, whatever its
\* weighted score and the thresholds are.
C12_MissingSkillsAutoFail ==
    BatchDone =>
        \A i \in DOMAIN scr.raw_candidates :
            ( /\ scr.raw_candidates[i].record = "well_formed"
              /\ scr.raw_candidates[i].profile.missing_critical_skills > 2 )
            => /\ HasResult(i)
               /\ ~ResultOf(i).passes_screening
               /\ ~ResultOf(i).recommended_for_shortlist
               /\ ~InList(scr.passed_candidates, i)
               /\ ~InList(scr.shortlisted_candidates, i)

\* A batch was screened that holds a candidate missing three required skills
\* whose weighted score reaches both thresholds.
C12_Witness ==
    /\ BatchDone
    /\ \E i \in DOMAIN scr.raw_candidates :
          /\ scr.raw_candidates[i].record = "well_formed"
          /\ scr.raw_candidates[i].profile.missing_critical_skills > 2
          /\ HasResult(i)
          /\ ResultOf(i).weighted_score >= scr.screening_criteria.pass_threshold
          /\ ResultOf(i).weighted_score >= scr.screening_criteria.shortlist_threshold

\* C16: screen_candidate returns a result for every candidate record of the
\* batch, and for a record it could not analyse the result has every score 0,
\* passes_screening = false and the failure in concerns.
C16_ScreenCandidateNeverRaises ==
    BatchDone =>
        \A i \in DOMAIN scr.raw_candidates :
            /\ HasResult(i)
            /\ scr.raw_candidates[i].record # "well_formed" =>
                  /\ ResultOf(i).weighted_score = 0
                  /\ ResultOf(i).overall_score = 0
                  /\ ResultOf(i).experience_score = 0
                  /\ ~ResultOf(i).passes_screening
                  /\ ResultOf(i).concerns # {}

\* C18: in the result of every analysed candidate the auto-fail rules come
\* first (more than two missing skills, or experience "under" with a score
\* below 30: both decisions false); otherwise passes_screening is exactly
\* weighted_score >= pass_threshold and recommended_for_shortlist is exactly
\* weighted_score >= shortlist_threshold, each on its own.
C18_DecisionOrder ==
    BatchDone =>
        \A k \in DOMAIN scr.screening_results :
            LET result == scr.screening_results[k]
            IN  result.concerns = {} =>
                  IF \/ result.missing_critical_skills > 2
                     \/ /\ result.experience_level_match = "under"
                        /\ result.experience_score < 30
                  THEN ~result.passes_screening /\ ~result.recommended_for_shortlist
                  ELSE /\ result.passes_screening
                           = (result.weighted_score >= scr.screening_criteria.pass_threshold)
                       /\ result.recommended_for_shortlist
                           = (result.weighted_score >= scr.screening_criteria.shortlist_threshold)

\* A candidate just under the shortlist threshold of 70 passed and was not
\* recommended, and one under-experienced candidate with a score that reaches
\* both thresholds got neither decision.
C18_Witness ==
    /\ BatchDone
    /\ scr.screening_criteria.shortlist_threshold = 70
    /\ \E k \in DOMAIN scr.screening_results :
          /\ scr.screening_results[k].weighted_score = 69
          /\ scr.screening_results[k].passes_screening
          /\ ~scr.screening_results[k].recommended_for_shortlist
    /\ \E k \in DOMAIN scr.screening_results :
          /\ scr.screening_results[k].experience_level_match = "under"
          /\ scr.screening_results[k].experience_score < 30
          /\ scr.screening_results[k].weighted_score >= 70
          /\ ~scr.screening_results[k].passes_screening

\* errors holds everything known_errors held, in the same order.
ErrorsKept(known_errors, errors) ==
    /\ Len(known_errors) <= Len(errors)
    /\ SubSeq(errors, 1, Len(known_errors)) = known_errors

\* C20: no step of the screening stage or of the outreach stage takes an entry
\* out of the stage's processing_errors.
C20_ErrorsOnlyGrow ==
    [][ /\ ErrorsKept(scr.processing_errors, scr'.processing_errors)
        /\ outr.pc # "off" => ErrorsKept(outr.processing_errors, outr'.processing_errors) ]_vars

\* C10: a screening run over an empty candidate list ends without raising and
\* reports zero processed, passed and shortlisted candidates.
C10_EmptyScreeningCompletes ==
    (scr.pc \in {"raised", "END"} /\ Len(scr.raw_candidates) = 0)
        => /\ scr.pc = "END"
           /\ scr.screening_metrics.total_processed = 0
           /\ scr.screening_metrics.passed_count = 0
           /\ scr.screening_metrics.shortlisted_count = 0

(***************************************************************************)
(* Scoring: the analysis steps of ScreeningAgent.screen_candidate          *)
(* (agents/screening.py) up to _calculate_scores.  Scores are fractions,   *)
(* kept exactly as a numerator over a positive denominator; a weight is    *)
(* kept in tenths (required_skills_weight 0.4 is 4).                       *)
(***************************************************************************)
MaxSkills == 2         \* skills in a job's required or preferred list

Rat(n, d) == [num |-> n, den |-> d]

RatLeq(a, b) == a.num * b.den <= b.num * a.den

RatAdd(a, b) == Rat(a.num * b.den + b.num * a.den, a.den * b.den)

RatScale(a, k) == Rat(a.num * k, a.den)

\* a / k for an integer k > 0.
RatDiv(a, k) == Rat(a.num, a.den * k)

RatMax(a, b) == IF RatLeq(a, b) THEN b ELSE a

RatMin(a, b) == IF RatLeq(a, b) THEN a ELSE b

RECURSIVE RatSum(_)
RatSum(scores) ==
    IF scores = <<>> THEN Rat(0, 1)
    ELSE RatAdd(scores[1], RatSum(Tail(scores)))

\* SkillMatch.confidence times 100 as _match_skill sets it: 100 exact, 95
\* synonym, the fuzzy ratio when it is 70 or more, 0 when nothing matches.
MatchConfidences == {0, 85, 100}

\* The confidences of the matches of a skill list, skill by skill.
SkillMatchLists == SeqsUpTo(MatchConfidences, MaxSkills)

\* CandidateProfile.experience_years.
ExperienceYears == {0, 2, 3, 15}

\* What _analyze_location finds out about the candidate's location: it holds
\* the job's location, or a preferred location, or is compared by fuzzy ratio
\* (similarity), or one of the two locations is missing.
LocationFindings ==
    { [relation |-> "job_location", similarity |-> 100],
      [relation |-> "preferred", similarity |-> 0],
      [relation |-> "other", similarity |-> 80],
      [relation |-> "other", similarity |-> 45],
      [relation |-> "missing", similarity |-> 0] }

\* What _analyze_education finds out: the job has no education requirements,
\* the candidate lists no education, or the best fuzzy ratio (similarity).
EducationFindings ==
    { [relation |-> "no_requirements", similarity |-> 0],
      [relation |-> "no_education", similarity |-> 0],
      [relation |-> "compared", similarity |-> 70],
      [relation |-> "compared", similarity |-> 40] }

\* The five weights of a ScreeningCriteria, in tenths.  The model accepts any
\* float: the defaults, a negative weight, all weights zero.
ScreeningWeights ==
    { [required_skills_weight |-> 4, preferred_skills_weight |-> 2, experience_weight |-> 3,
       location_weight |-> 1, education_weight |-> 0],
      [required_skills_weight |-> 4, preferred_skills_weight |-> -2, experience_weight |-> 3,
       location_weight |-> 1, education_weight |-> 0],
      [required_skills_weight |-> 0, preferred_skills_weight |-> 0, experience_weight |-> 0,
       location_weight |-> 0, education_weight |-> 0] }

\* min_experience_years and preferred_experience_years of a ScreeningCriteria.
ExperienceRequirements ==
    { [min_experience_years |-> 0, preferred_experience_years |-> 3],
      [min_experience_years |-> 4, preferred_experience_years |-> 6] }

ScoringCriteria ==
    { [weights |-> w, min_experience_years |-> e.min_experience_years,
       preferred_experience_years |-> e.preferred_experience_years,
       allow_remote |-> r, education_required |-> q] :
        w \in ScreeningWeights, e \in ExperienceRequirements, r \in BOOLEAN, q \in BOOLEAN }

NonNegativeWeights(criteria) ==
    /\ criteria.weights.required_skills_weight >= 0
    /\ criteria.weights.preferred_skills_weight >= 0
    /\ criteria.weights.experience_weight >= 0
    /\ criteria.weights.location_weight >= 0
    /\ criteria.weights.education_weight >= 0

_calculate_skill_score(matches) ==
    IF matches = <<>> THEN Rat(0, 1)
    ELSE RatDiv(RatSum([i \in 1..Len(matches) |-> Rat(matches[i], 1)]), Len(matches))

_analyze_skills(required_matches, preferred_matches, result) ==
    [result EXCEPT
        !.required_skills_score =
            IF required_matches # <<>> THEN _calculate_skill_score(required_matches)
            ELSE Rat(100, 1),
        !.preferred_skills_score =
            IF preferred_matches # <<>> THEN _calculate_skill_score(preferred_matches)
            ELSE Rat(0, 1),
        !.missing_critical_skills =
            Cardinality({ i \in 1..Len(required_matches) : required_matches[i] = 0 })]

_analyze_experience(candidate_exp, screening_criteria, result) ==
    LET min_required  == screening_criteria.min_experience_years
        preferred_exp == screening_criteria.preferred_experience_years
    IN  IF candidate_exp < min_required
        THEN [result EXCEPT
                !.experience_level_match = "under",
                !.experience_score =
                    IF min_required > 0
                    THEN RatMax(Rat(0, 1), Rat(candidate_exp * 60, min_required))
                    ELSE Rat(60, 1)]
        ELSE IF candidate_exp >= preferred_exp
        THEN [result EXCEPT
                !.experience_level_match = "exceeds",
                !.experience_score =
                    RatMin(Rat(100, 1), Rat(80 + (candidate_exp - preferred_exp) * 2, 1))]
        ELSE [result EXCEPT
                !.experience_level_match = "meets",
                !.experience_score =
                    IF preferred_exp > min_required
                    THEN RatAdd(Rat(60, 1),
                                Rat((candidate_exp - min_required) * 40,
                                    preferred_exp - min_required))
                    ELSE Rat(80, 1)]

_analyze_location(finding, screening_criteria, result) ==
    [result EXCEPT !.location_score =
        IF screening_criteria.allow_remote THEN Rat(100, 1)
        ELSE IF finding.relation = "job_location" THEN Rat(100, 1)
        ELSE IF finding.relation = "preferred" THEN Rat(90, 1)
        ELSE IF finding.relation = "other"
             THEN IF finding.similarity >= 80 THEN Rat(finding.similarity, 1) ELSE Rat(30, 1)
        ELSE Rat(50, 1)]

_analyze_education(finding, screening_criteria, result) ==
    [result EXCEPT !.education_score =
        IF ~screening_criteria.education_required THEN Rat(100, 1)
        ELSE IF finding.relation = "no_requirements" THEN Rat(100, 1)
        ELSE IF finding.relation = "no_education" THEN Rat(0, 1)
        ELSE IF finding.similarity >= 70 THEN Rat(finding.similarity, 1)
        ELSE Rat(30, 1)]

_calculate_scores(result, criteria) ==
    LET scores ==
            << result.required_skills_score, result.preferred_skills_score,
               result.experience_score, result.location_score >>
            \o (IF criteria.education_required THEN << result.education_score >> ELSE <<>>)
        overall_score == RatDiv(RatSum(scores), Len(scores))
        weighted_sum ==
            RatSum(<< RatScale(result.required_skills_score, criteria.weights.required_skills_weight),
                      RatScale(result.preferred_skills_score, criteria.weights.preferred_skills_weight),
                      RatScale(result.experience_score, criteria.weights.experience_weight),
                      RatScale(result.location_score, criteria.weights.location_weight),
                      RatScale(result.education_score, criteria.weights.education_weight) >>)
        total_weight ==
            criteria.weights.required_skills_weight + criteria.weights.preferred_skills_weight
            + criteria.weights.experience_weight + criteria.weights.location_weight
            + criteria.weights.education_weight
    IN  [result EXCEPT
            !.overall_score = overall_score,
            !.weighted_score =
                IF total_weight > 0 THEN RatDiv(weighted_sum, total_weight) ELSE overall_score]

\* The result screen_candidate starts from: every score 0.
InitialResult ==
    [ required_skills_score |-> Rat(0, 1), preferred_skills_score |-> Rat(0, 1),
      experience_score |-> Rat(0, 1), experience_level_match |-> "under",
      location_score |-> Rat(0, 1), education_score |-> Rat(0, 1),
      overall_score |-> Rat(0, 1), weighted_score |-> Rat(0, 1),
      missing_critical_skills |-> 0 ]

ScoringInit ==
    /\ \E required_matches \in SkillMatchLists, preferred_matches \in SkillMatchLists,
          candidate_exp \in ExperienceYears, location \in LocationFindings,
          education \in EducationFindings, criteria \in ScoringCriteria :
          scr = [ pc |-> "initialize_screening",
                  required_matches |-> required_matches,
                  preferred_matches |-> preferred_matches,
                  experience_years |-> candidate_exp,
                  location |-> location, education |-> education,
                  screening_criteria |-> criteria,
                  result |-> InitialResult ]
    /\ rm = RMOff /\ agent = Idle /\ cand = Idle /\ srcg = Idle /\ outr = Idle /\ pipe = Idle /\ mail = Idle

\* initialize_screening and the ScreeningCriteria(**criteria_dict) of the batch
\* step: the criteria and the job requirements are taken as they are.
AcceptConfiguration ==
    /\ scr.pc = "initialize_screening"
    /\ scr' = [scr EXCEPT !.pc = "analyze_skills"]
    /\ UNCHANGED <<rm, agent, cand, srcg, outr, pipe, mail>>

AnalyzeSkills ==
    /\ scr.pc = "analyze_skills"
    /\ scr' = [scr EXCEPT
                 !.result = _analyze_skills(scr.required_matches, scr.preferred_matches, @),
                 !.pc = "analyze_experience"]
    /\ UNCHANGED <<rm, agent, cand, srcg, outr, pipe, mail>>

AnalyzeExperience ==
    /\ scr.pc = "analyze_experience"
    /\ scr' = [scr EXCEPT
                 !.result = _analyze_experience(scr.experience_years, scr.screening_criteria, @),
                 !.pc = "analyze_location"]
    /\ UNCHANGED <<rm, agent, cand, srcg, outr, pipe, mail>>

AnalyzeLocation ==
    /\ scr.pc = "analyze_location"
    /\ scr' = [scr EXCEPT
                 !.result = _analyze_location(scr.location, scr.screening_criteria, @),
                 !.pc = "analyze_education"]
    /\ UNCHANGED <<rm, agent, cand, srcg, outr, pipe, mail>>

AnalyzeEducation ==
    /\ scr.pc = "analyze_education"
    /\ scr' = [scr EXCEPT
                 !.result = _analyze_education(scr.education, scr.screening_criteria, @),
                 !.pc = "calculate_scores"]
    /\ UNCHANGED <<rm, agent, cand, srcg, outr, pipe, mail>>

CalculateScores ==
    /\ scr.pc = "calculate_scores"
    /\ scr' = [scr EXCEPT
                 !.result = _calculate_scores(@, scr.screening_criteria),
                 !.pc = "scored"]
    /\ UNCHANGED <<rm, agent, cand, srcg, outr, pipe, mail>>

ScoringNext ==
    AcceptConfiguration \/ AnalyzeSkills \/ AnalyzeExperience \/ AnalyzeLocation \/ AnalyzeEducation \/ CalculateScores

SpecScoring == ScoringInit /\ [][ScoringNext]_vars

InBounds(score) == RatLeq(Rat(0, 1), score) /\ RatLeq(score, Rat(100, 1))

ComponentsInBounds(result) ==
    /\ InBounds(result.required_skills_score)
    /\ InBounds(result.preferred_skills_score)
    /\ InBounds(result.experience_score)
    /\ InBounds(result.location_score)
    /\ InBounds(result.education_score)

TotalWeight(criteria) ==
    criteria.weights.required_skills_weight + criteria.weights.preferred_skills_weight
    + criteria.weights.experience_weight + criteria.weights.location_weight
    + criteria.weights.education_weight

\* C21: once initialization is over and the first candidate is being analysed,
\* the configuration of the run is valid: no weight is negative, the weights do
\* not sum to zero, and the job requirements are not empty (they name at least
\* one required or preferred skill).
C21_InvalidConfigurationRejected ==
    scr.pc # "initialize_screening" =>
        /\ NonNegativeWeights(scr.screening_criteria)
        /\ TotalWeight(scr.screening_criteria) # 0
        /\ scr.required_matches # <<>> \/ scr.preferred_matches # <<>>

RatEq(a, b) == a.num * b.den = b.num * a.den

\* _analyze_experience has run on the candidate.
ExperienceAnalysed ==
    scr.pc \in {"analyze_location", "analyze_education", "calculate_scores", "scored"}

\* C28: under the criteria of the run, a candidate with more years of
\* experience than the one analysed gets an experience score that is not
\* lower.
C28_ExperienceScoreMonotonic ==
    ExperienceAnalysed =>
        \A more_years \in ExperienceYears :
            more_years > scr.experience_years =>
                RatLeq(scr.result.experience_score,
                       _analyze_experience(more_years, scr.screening_criteria,
                                           InitialResult).experience_score)

\* C17: at every step of the scoring of a candidate, under every criteria the
\* stage accepts, the five component scores, the overall score and the
\* weighted score of the result are at least 0 and at most 100.
C17_ScoresWithinBounds ==
    /\ ComponentsInBounds(scr.result)
    /\ InBounds(scr.result.overall_score)
    /\ InBounds(scr.result.weighted_score)

\* The same bounds under criteria whose five weights are non-negative.
ScoresWithinBoundsForNonNegativeWeights ==
    NonNegativeWeights(scr.screening_criteria) => C17_ScoresWithinBounds

(***************************************************************************)
(* Skill matching: _match_skill and _analyze_skills (agents/screening.py)  *)
(* on the required and the preferred skill list of a job.                  *)
(***************************************************************************)
\* How one skill of the job is found among the candidate's skills: literally,
\* through the synonym table, or neither, and then the best fuzzy
\* partial_ratio against the candidate's skills (similarity).
SkillFindings ==
    { [how |-> "literal", similarity |-> 100],
      [how |-> "synonym", similarity |-> 100],
      [how |-> "fuzzy", similarity |-> 90],
      [how |-> "fuzzy", similarity |-> 75],
      [how |-> "fuzzy", similarity |-> 40] }

SkillMatch(found, match_type, confidence) ==
    [found |-> found, match_type |-> match_type, confidence |-> confidence]

\* confidence is kept times 100.
_match_skill(finding) ==
    IF finding.how = "literal" THEN SkillMatch(TRUE, "exact", 100)
    ELSE IF finding.how = "synonym" THEN SkillMatch(TRUE, "exact", 95)
    ELSE IF finding.similarity >= 85 THEN SkillMatch(TRUE, "partial", finding.similarity)
    ELSE IF finding.similarity >= 70 THEN SkillMatch(TRUE, "related", finding.similarity)
    ELSE SkillMatch(FALSE, "none", 0)

MatchAll(findings) == [i \in 1..Len(findings) |-> _match_skill(findings[i])]

Confidences(matches) == [i \in 1..Len(matches) |-> matches[i].confidence]

SkillsInit ==
    /\ \E required_skills \in SeqsUpTo(SkillFindings, MaxSkills),
          preferred_skills \in SeqsUpTo(SkillFindings, MaxSkills) :
          scr = [ pc |-> "analyze_skills",
                  required_skills |-> required_skills, preferred_skills |-> preferred_skills,
                  required_matches |-> <<>>, preferred_matches |-> <<>>,
                  result |-> InitialResult ]
    /\ rm = RMOff /\ agent = Idle /\ cand = Idle /\ srcg = Idle /\ outr = Idle /\ pipe = Idle /\ mail = Idle

AnalyzeJobSkills ==
    /\ scr.pc = "analyze_skills"
    /\ LET required_matches  == MatchAll(scr.required_skills)
           preferred_matches == MatchAll(scr.preferred_skills)
       IN  scr' = [scr EXCEPT
                     !.required_matches = required_matches,
                     !.preferred_matches = preferred_matches,
                     !.result = _analyze_skills(Confidences(required_matches),
                                                Confidences(preferred_matches), @),
                     !.pc = "skills_analysed"]
    /\ UNCHANGED <<rm, agent, cand, srcg, outr, pipe, mail>>

SkillsNext == AnalyzeJobSkills

SpecSkills == SkillsInit /\ [][SkillsNext]_vars

\* The mean of the confidences (times 100) of a skill list's matches, 100 for
\* an empty list.
MeanConfidence(matches) ==
    IF matches = <<>> THEN Rat(100, 1)
    ELSE Rat(RatSum([i \in 1..Len(matches) |-> Rat(matches[i].confidence, 1)]).num, Len(matches))

\* C22: once the skills are analysed, required_skills_score is the mean of the
\* confidences times 100 over the required skills and preferred_skills_score
\* the mean over the preferred skills, and each is 100 when its list is empty.
C22_SkillScoresAreMeans ==
    scr.pc = "skills_analysed" =>
        /\ RatEq(scr.result.required_skills_score, MeanConfidence(scr.required_matches))
        /\ RatEq(scr.result.preferred_skills_score, MeanConfidence(scr.preferred_matches))

\* The same with the preferred list not empty.
SkillScoresAreMeansOfNonEmptyLists ==
    (scr.pc = "skills_analysed" /\ scr.preferred_skills # <<>>) => C22_SkillScoresAreMeans

\* C23: a required skill found through the synonym table is matched as exact,
\* and when every required skill is found literally or by synonym the
\* required_skills_score is 100.
C23_SynonymCountsAsExact ==
    scr.pc = "skills_analysed" =>
        /\ \A i \in DOMAIN scr.required_skills :
              scr.required_skills[i].how = "synonym"
                  => scr.required_matches[i].match_type = "exact"
        /\ (\A i \in DOMAIN scr.required_skills :
                scr.required_skills[i].how \in {"literal", "synonym"})
              => RatEq(scr.result.required_skills_score, Rat(100, 1))

(***************************************************************************)
(* Incoming email: EmailProcessor (utils/email_integration.py).  Two       *)
(* threads run process_incoming_email on the same processor: the           *)
(* monitoring thread of start_email_monitoring, which takes emails from    *)
(* email_queue, and a direct caller.  A call is three steps: the test of   *)
(* processed_emails with the candidate lookup, the interview agent's       *)
(* process_email_response, and processed_emails.add.                       *)
(***************************************************************************)
Threads == { "monitor", "caller" }

\* IncomingEmail: its message_id, and whether _find_candidate_by_email finds
\* the sender.
IncomingEmails ==
    { [message_id |-> "m1", known_sender |-> TRUE],
      [message_id |-> "m2", known_sender |-> TRUE],
      [message_id |-> "m3", known_sender |-> FALSE] }

MessageIds == { e.message_id : e \in IncomingEmails }

NoCall == [pc |-> "idle", email |-> None]

MailInit ==
    /\ \E queued \in SeqsUpTo(IncomingEmails, MaxQueued) :
          mail = [ pc |-> "live",
                   email_queue |-> queued,
                   processed_emails |-> {},
                   threads |-> [t \in Threads |-> NoCall],
                   calls |-> 0,
                   analysed |-> [m \in MessageIds |-> 0],
                   raised |-> FALSE,
                   overlapped |-> FALSE ]
    /\ rm = RMOff /\ agent = Idle /\ cand = Idle /\ srcg = Idle /\ scr = Idle /\ outr = Idle
    /\ pipe = Idle

\* Thread t enters process_incoming_email with email_data.
Enter(t, email_data) ==
    [mail EXCEPT !.threads[t] = [pc |-> "check", email |-> email_data],
                 !.overlapped = @ \/ (\E u \in Threads \ {t} : mail.threads[u].pc # "idle")]

\* monitor_loop: email_data = self.email_queue.get(); self.process_incoming_email(email_data)
TakeFromQueue ==
    /\ mail.pc = "live"
    /\ mail.threads["monitor"].pc = "idle"
    /\ mail.email_queue # <<>>
    /\ mail' = [Enter("monitor", Head(mail.email_queue)) EXCEPT !.email_queue = Tail(@)]
    /\ UNCHANGED <<rm, agent, cand, srcg, scr, outr, pipe>>

\* A direct call of process_incoming_email.
DirectCall ==
    /\ mail.pc = "live"
    /\ mail.threads["caller"].pc = "idle"
    /\ mail.calls < MaxCalls
    /\ \E email_data \in IncomingEmails :
          mail' = [Enter("caller", email_data) EXCEPT !.calls = @ + 1]
    /\ UNCHANGED <<rm, agent, cand, srcg, scr, outr, pipe>>

\* if email_data.message_id in self.processed_emails: return already_processed;
\* if not candidate: return candidate_not_found.
CheckProcessed ==
    /\ mail.pc = "live"
    /\ \E t \in Threads :
          /\ mail.threads[t].pc = "check"
          /\ LET email_data == mail.threads[t].email
             IN  mail' = IF \/ email_data.message_id \in mail.processed_emails
                            \/ ~email_data.known_sender
                         THEN [mail EXCEPT !.threads[t] = NoCall]
                         ELSE [mail EXCEPT !.threads[t].pc = "analyse"]
    /\ UNCHANGED <<rm, agent, cand, srcg, scr, outr, pipe>>

\* result = self.interview_agent.process_email_response(...): it returns, or it
\* raises and the call returns processing_error.
ProcessEmailResponse ==
    /\ mail.pc = "live"
    /\ \E t \in Threads, returns \in BOOLEAN :
          /\ mail.threads[t].pc = "analyse"
          /\ LET m == mail.threads[t].email.message_id
             IN  mail' = [mail EXCEPT
                            !.analysed[m] = @ + 1,
                            !.raised = @ \/ ~returns,
                            !.threads[t] = IF returns THEN [@ EXCEPT !.pc = "mark"] ELSE NoCall]
    /\ UNCHANGED <<rm, agent, cand, srcg, scr, outr, pipe>>

\* self.processed_emails.add(email_data.message_id); return processed.
MarkProcessed ==
    /\ mail.pc = "live"
    /\ \E t \in Threads :
          /\ mail.threads[t].pc = "mark"
          /\ mail' = [mail EXCEPT
                         !.processed_emails = @ \cup {mail.threads[t].email.message_id},
                         !.threads[t] = NoCall]
    /\ UNCHANGED <<rm, agent, cand, srcg, scr, outr, pipe>>

MailNext ==
    TakeFromQueue \/ DirectCall \/ CheckProcessed \/ ProcessEmailResponse \/ MarkProcessed

SpecMail == MailInit /\ [][MailNext]_vars

\* C27: no message_id is passed to the interview agent's process_email_response
\* more than once, whatever calls are made and however the monitoring thread
\* and the direct caller interleave.
C27_AnalysedAtMostOnce ==
    \A m \in MessageIds : mail.analysed[m] <= 1

\* The same as long as no two calls overlapped and the interview agent never
\* raised.
AnalysedAtMostOnceInSequenceWithoutRaise ==
    (~mail.overlapped /\ ~mail.raised) => C27_AnalysedAtMostOnce

(***************************************************************************)
(* The pipeline: run_real_email_pipeline (main.py).  Its stages are the    *)
(* database screening workflow and the outreach it does itself; any        *)
(* exception inside is caught at the end and the run returns None.         *)
(***************************************************************************)
\* create_database_screening_workflow().invoke(state): the state at the end of
\* the graph, or at the node that raised.
invoke_database_screening(state) ==
    LET screened == screen_database_candidates(initialize_database_screening(state))
    IN  IF screened.pc = "raised" THEN screened ELSE finalize_screening(screened)

\* main.py lines 170-175: the address filter of the pipeline.
has_valid_address(candidate) == candidate.email \in { "dev@localhost", "dev@example.com" }

PipelineInit ==
    /\ \E config_ok \in BOOLEAN, confirm \in BOOLEAN, db_connected \in BOOLEAN,
          cs \in CandidateLists :
          pipe = [ pc |-> "start", config_ok |-> config_ok, confirm |-> confirm,
                   db_connected |-> db_connected, db_candidates |-> cs,
                   screening_criteria |-> [pass_threshold |-> 60, shortlist_threshold |-> 70],
                   screening_result |-> create_database_screening_state(
                                            [pass_threshold |-> 60, shortlist_threshold |-> 70]),
                   stages |-> <<>>, emails_sent |-> 0, result |-> "running" ]
    /\ rm = RMOff /\ agent = Idle /\ cand = Idle /\ srcg = Idle /\ scr = Idle /\ outr = Idle
    /\ mail = Idle

ReturnNone(p) == [p EXCEPT !.pc = "returned", !.result = "None"]

\* Lines 29-63: email configuration, the operator's confirmation, the database
\* connection test.
PipelineStart ==
    /\ pipe.pc = "start"
    /\ pipe' = IF pipe.config_ok /\ pipe.confirm /\ pipe.db_connected
               THEN [pipe EXCEPT !.pc = "screening"]
               ELSE ReturnNone(pipe)
    /\ UNCHANGED <<rm, agent, cand, srcg, scr, outr, mail>>

\* One invoke of the screening workflow from the pipeline and what follows it.
ScreeningPass(p, last_pass) ==
    LET state  == [create_database_screening_state(p.screening_criteria)
                      EXCEPT !.db_candidates = p.db_candidates]
        result == invoke_database_screening(state)
        q      == [p EXCEPT !.screening_result = result]
    IN  IF result.pc = "raised" THEN ReturnNone(q)
        ELSE IF Len(result.shortlisted_candidates) = 0
             THEN IF last_pass THEN ReturnNone(q) ELSE [q EXCEPT !.pc = "lower_threshold"]
        ELSE [q EXCEPT !.pc = "outreach"]

\* Lines 122-143: the screening stage.
PipelineScreening ==
    /\ pipe.pc = "screening"
    /\ pipe' = ScreeningPass([pipe EXCEPT !.stages = Append(@, "screening")], FALSE)
    /\ UNCHANGED <<rm, agent, cand, srcg, scr, outr, mail>>

\* Lines 145-155: nobody shortlisted: shortlist_threshold 60 and a second
\* invoke; still nobody: return None.
PipelineLowerThreshold ==
    /\ pipe.pc = "lower_threshold"
    /\ pipe' = ScreeningPass([pipe EXCEPT !.screening_criteria.shortlist_threshold = 60],
                             TRUE)
    /\ UNCHANGED <<rm, agent, cand, srcg, scr, outr, mail>>

\* Lines 157-291: the outreach stage of the pipeline.
PipelineOutreach ==
    /\ pipe.pc = "outreach"
    /\ LET valid_candidates ==
               SelectSeq(pipe.screening_result.shortlisted_candidates, has_valid_address)
           emails == PrepareFrom(1, valid_candidates,
                                 [emails_to_send |-> <<>>, processing_errors |-> <<>>]).emails_to_send
           started == [pipe EXCEPT !.stages = Append(@, "outreach")]
       IN  \E final_confirm \in BOOLEAN, transport_ok \in [DOMAIN emails -> BOOLEAN] :
              pipe' = IF valid_candidates = <<>> \/ ~final_confirm \/ emails = <<>>
                      THEN ReturnNone(started)
                      ELSE [started EXCEPT
                               !.emails_sent = Cardinality({ i \in DOMAIN emails :
                                                 send_email(emails[i], transport_ok[i]) = "delivered" }),
                               !.pc = "returned", !.result = "dict"]
    /\ UNCHANGED <<rm, agent, cand, srcg, scr, outr, mail>>

PipelineNext ==
    \/ PipelineStart
    \/ PipelineScreening
    \/ PipelineLowerThreshold
    \/ PipelineOutreach

SpecMain == PipelineInit /\ [][PipelineNext]_vars

\* C9: a run whose screening stage has completed goes on to the outreach stage
\* before it returns, also when screening shortlisted no candidate.
C9_AllStagesRun ==
    ( /\ pipe.pc = "returned"
      /\ "screening" \in Range(pipe.stages)
      /\ pipe.screening_result.pc = "END" )
        => "outreach" \in Range(pipe.stages)

====
